---- MODULE Spec2Model ----
(***************************************************************************)
(* A model of the grug execution engine: the Coins map of                  *)
(* crates/std/src/types/coin.rs, the message dispatcher of                 *)
(* crates/app/src/execute.rs and the transaction hooks of                  *)
(* crates/app/src/execute/account.rs.                                      *)
(*                                                                         *)
(* Two specifications share the module: SpecCoins drives one Coins value   *)
(* through increase_amount / decrease_amount; Spec drives one store        *)
(* through process_msg, before_tx and after_tx.                            *)
(***************************************************************************)
EXTENDS Integers, Sequences, FiniteSets, TLC

\* The field names of the module's records: every record lists its fields
\* in this order.
Fields ==
    [admin |-> 0, after |-> 0, amount |-> 0, attributes |-> 0, bank |-> 0, before |-> 0,
     block |-> 0, block_hash |-> 0, block_height |-> 0, block_timestamp |-> 0,
     build |-> 0, by |-> 0, call |-> 0, calls |-> 0, chain_id |-> 0,
     code |-> 0, code_hash |-> 0, coins |-> 0, contract |-> 0, ctx |-> 0,
     denom |-> 0,
     detail |-> 0, entry |-> 0, err |-> 0, fields |-> 0, from |-> 0,
     funds |-> 0, hash |-> 0, height |-> 0, input |-> 0, kind |-> 0, level |-> 0,
     logs |-> 0, message |-> 0, msg |-> 0, msgs |-> 0, op |-> 0, out |-> 0,
     prefix |-> 0, res |-> 0, ret |-> 0, salt |-> 0, sender |-> 0,
     simulate |-> 0, some |-> 0, step |-> 0, steps |-> 0, store |-> 0,
     submsg_result |-> 0, tag |-> 0, target |-> 0, timestamp |-> 0, to |-> 0,
     tx |-> 0, type |-> 0, val |-> 0, wasm_byte_code |-> 0, write |-> 0]

VARIABLES
    coins,            \* the Coins value under test: BTreeMap<String, Uint128>
    coinsOp,          \* the last Coins operation and its arguments
    coinsRes,         \* what the last Coins operation returned
    store,            \* the backing key-value store shared by all handles
    debug_assertions, \* whether the build compiles debug_assert! in
    last,             \* the last engine call and its arguments
    result,           \* what the last engine call returned
    calls,            \* the entry-point invocations the last engine call made
    steps,            \* the steps the last engine call went through, in order
    logs,             \* the tracing records the last engine call emitted
    ops               \* how many engine calls were made so far

coinVars == <<coins, coinsOp, coinsRes>>
appVars  == <<store, debug_assertions, last, result, calls, steps, logs, ops>>
vars     == <<coins, coinsOp, coinsRes, store, debug_assertions, last, result,
              calls, steps, logs, ops>>

-----------------------------------------------------------------------------
(* Bounds *)

\* Uint128 is modelled at this width; amounts range over 0 .. 2^UintBits - 1.
UintBits == 2

\* The engine is followed through at most MaxOps calls.
MaxOps == 2

\* A string, vector or JSON array that Coins is built from has at most
\* MaxCoins elements.
MaxCoins == 2

-----------------------------------------------------------------------------
(* Result and Option *)

Ok(v)  == [tag |-> "Ok", val |-> v]
Err(e) == [err |-> e, tag |-> "Err"]
Panic  == [tag |-> "Panic"]
IsOk(r)  == r.tag = "Ok"
IsErr(r) == r.tag = "Err"

None    == [some |-> FALSE]
Some(x) == [some |-> TRUE, val |-> x]

Unit == "()"

-----------------------------------------------------------------------------
(* Uint128 *)

UintMax == 2 ^ UintBits - 1
Uint128 == 0 .. UintMax

checked_add(a, b) ==
    IF a + b > UintMax THEN Err("OverflowAdd") ELSE Ok(a + b)

checked_sub(a, b) ==
    IF b > a THEN Err("OverflowSub") ELSE Ok(a - b)

-----------------------------------------------------------------------------
(* Coins: a map from denom to amount, ordered by denom *)

Denoms == {"uatom", "umars", "uosmo"}

EmptyCoins == [d \in {} |-> 0]

MapInsert(m, k, v) == [x \in DOMAIN m \cup {k} |-> IF x = k THEN v ELSE m[x]]
MapRemove(m, k)    == [x \in DOMAIN m \ {k} |-> m[x]]

is_empty(c) == DOMAIN c = {}

has(c, denom) == denom \in DOMAIN c

amount_of(c, denom) == IF denom \in DOMAIN c THEN c[denom] ELSE 0

\* An increase that stops at the maximum instead of failing.
increase_amount_saturating(c, denom, by) ==
    IF denom \notin DOMAIN c
    THEN [coins |-> MapInsert(c, denom, by), res |-> Ok(Unit)]
    ELSE [coins |-> MapInsert(c, denom,
                              IF c[denom] + by > UintMax THEN UintMax
                                                         ELSE c[denom] + by),
          res   |-> Ok(Unit)]

\* The pair (coins after the call, result of the call).
increase_amount(c, denom, by) ==
    IF denom \notin DOMAIN c
    THEN [coins |-> MapInsert(c, denom, by), res |-> Ok(Unit)]
    ELSE LET sum == checked_add(c[denom], by) IN
         IF IsErr(sum)
         THEN [coins |-> c, res |-> sum]
         ELSE [coins |-> MapInsert(c, denom, sum.val), res |-> Ok(Unit)]

\* A decrease that writes the clamped amount before reporting the underflow.
decrease_amount_clamping(c, denom, by) ==
    IF denom \notin DOMAIN c
    THEN [coins |-> c, res |-> Err("DenomNotFound")]
    ELSE LET diff == checked_sub(c[denom], by) IN
         IF IsErr(diff)
         THEN [coins |-> MapRemove(c, denom), res |-> diff]
         ELSE IF diff.val = 0
              THEN [coins |-> MapRemove(c, denom), res |-> Ok(Unit)]
              ELSE [coins |-> MapInsert(c, denom, diff.val), res |-> Ok(Unit)]

decrease_amount(c, denom, by) ==
    IF denom \notin DOMAIN c
    THEN [coins |-> c, res |-> Err("DenomNotFound")]
    ELSE LET diff == checked_sub(c[denom], by) IN
         IF IsErr(diff)
         THEN [coins |-> c, res |-> diff]
         ELSE IF diff.val = 0
              THEN [coins |-> MapRemove(c, denom), res |-> Ok(Unit)]
              ELSE [coins |-> MapInsert(c, denom, diff.val), res |-> Ok(Unit)]

-----------------------------------------------------------------------------
(* The Coins specification *)

NoCoinsOp == [by |-> 0, denom |-> "", op |-> "none"]

IncreaseAmount ==
    \E denom \in Denoms, by \in Uint128 :
        LET r == increase_amount(coins, denom, by) IN
        /\ coins' = r.coins
        /\ coinsRes' = r.res
        /\ coinsOp' = [by |-> by, denom |-> denom, op |-> "increase_amount"]

DecreaseAmount ==
    \E denom \in Denoms, by \in Uint128 :
        LET r == decrease_amount(coins, denom, by) IN
        /\ coins' = r.coins
        /\ coinsRes' = r.res
        /\ coinsOp' = [by |-> by, denom |-> denom, op |-> "decrease_amount"]

-----------------------------------------------------------------------------
(* Coins from and to external input *)

\* The denoms in the order of String's Ord, which is the BTreeMap's key order.
DenomOrder == <<"uatom", "umars", "uosmo">>

\* One element of an input: a coin, or text that is not one.  In a string
\* the elements are the pieces between commas: "coin" is `denom:amount`,
\* "no_colon" a piece without a colon, "bad_amount" a piece whose amount does
\* not parse.  In a JSON array "coin" is {"denom": .., "amount": ..} and any
\* other kind an element that does not deserialize into a Coin.
Coin(denom, amount) == [amount |-> amount, denom |-> denom, kind |-> "coin"]
NotCoin(kind)       == [amount |-> 0, denom |-> "", kind |-> kind]

ParseCoins(reason) == [detail |-> <<reason>>, kind |-> "ParseCoins"]
DeCustom(reason)   == [detail |-> <<reason>>, kind |-> "de::Error"]

\* str::split(','): the empty string splits into one empty piece, which has
\* no colon.
split(s) == IF s = <<>> THEN <<NotCoin("no_colon")>> ELSE s

RECURSIVE from_str_loop(_, _)
from_str_loop(pieces, map) ==
    IF pieces = <<>>
    THEN Ok(map)
    ELSE IF Head(pieces).kind = "no_colon"
    THEN Err(ParseCoins("invalid coin"))
    ELSE IF Head(pieces).kind = "bad_amount"
    THEN Err(ParseCoins("invalid amount"))
    ELSE IF Head(pieces).amount = 0
    THEN Err(ParseCoins("zero amount"))
    ELSE IF Head(pieces).denom \in DOMAIN map
    THEN Err(ParseCoins("duplicate denom"))
    ELSE from_str_loop(Tail(pieces),
                       MapInsert(map, Head(pieces).denom, Head(pieces).amount))

\* impl FromStr for Coins
from_str(s) == from_str_loop(split(s), EmptyCoins)

RECURSIVE try_from_loop(_, _)
try_from_loop(vec, map) ==
    IF vec = <<>>
    THEN Ok(map)
    ELSE IF Head(vec).amount = 0
    THEN Err(ParseCoins("zero amount"))
    ELSE IF Head(vec).denom \in DOMAIN map
    THEN Err(ParseCoins("duplicate denom found"))
    ELSE try_from_loop(Tail(vec),
                       MapInsert(map, Head(vec).denom, Head(vec).amount))

\* impl TryFrom<Vec<Coin>> for Coins
try_from(vec) == try_from_loop(vec, EmptyCoins)

\* A visitor that lets a repeated denom replace the amount seen before.
RECURSIVE visit_seq_last_wins_loop(_, _)
visit_seq_last_wins_loop(seq, map) ==
    IF seq = <<>>
    THEN Ok(map)
    ELSE IF Head(seq).kind # "coin"
    THEN Err(DeCustom("invalid type"))
    ELSE IF Head(seq).amount = 0
    THEN Err(DeCustom("Coin amount is zero"))
    ELSE visit_seq_last_wins_loop(Tail(seq),
             MapInsert(map, Head(seq).denom, Head(seq).amount))

visit_seq_last_wins(seq) == visit_seq_last_wins_loop(seq, EmptyCoins)

RECURSIVE visit_seq_loop(_, _)
visit_seq_loop(seq, map) ==
    IF seq = <<>>
    THEN Ok(map)
    ELSE IF Head(seq).kind # "coin"
    THEN Err(DeCustom("invalid type"))
    ELSE IF Head(seq).amount = 0
    THEN Err(DeCustom("Coin amount is zero"))
    ELSE IF Head(seq).denom \in DOMAIN map
    THEN Err(DeCustom("Duplicate denom found"))
    ELSE visit_seq_loop(Tail(seq),
                        MapInsert(map, Head(seq).denom, Head(seq).amount))

\* CoinsVisitor::visit_seq, which is Coins' Deserialize
visit_seq(seq) == visit_seq_loop(seq, EmptyCoins)

\* BTreeMap::iter: the entries of the first n denoms, in ascending order.
RECURSIVE iter_upto(_, _)
iter_upto(c, n) ==
    IF n = 0
    THEN <<>>
    ELSE IF DenomOrder[n] \in DOMAIN c
    THEN Append(iter_upto(c, n - 1), Coin(DenomOrder[n], c[DenomOrder[n]]))
    ELSE iter_upto(c, n - 1)

iter(c) == iter_upto(c, Len(DenomOrder))

Reverse(s) == [i \in 1 .. Len(s) |-> s[Len(s) + 1 - i]]

\* A serializer that writes the entries in descending order.
serialize_descending(c) == Reverse(iter(c))

\* impl Serialize for Coins: one element per entry, in iteration order.
serialize(c) == iter(c)

\* impl Display for Coins: `denom:amount` of each entry in iteration order,
\* joined by commas; for no entry at all that is the empty string.
to_string(c) == iter(c)

\* The inputs: sequences of at most MaxCoins elements.
SeqsUpTo(S, n) == UNION {[1 .. k -> S] : k \in 0 .. n}

CoinValues == {Coin(d, a) : d \in Denoms, a \in Uint128}
Strings    == SeqsUpTo(CoinValues \cup {NotCoin("no_colon"),
                                       NotCoin("bad_amount")}, MaxCoins)
Vectors    == SeqsUpTo(CoinValues, MaxCoins)
JsonArrays == SeqsUpTo(CoinValues \cup {NotCoin("not_a_coin")}, MaxCoins)

\* Every map from denoms to amounts, the ones holding a zero amount included.
CoinsValues == UNION {[D -> Uint128] : D \in SUBSET Denoms}

\* A conversion is applied to a fresh input.
Fresh == coinsOp = NoCoinsOp

\* A constructor returns a new Coins or an error and no Coins.
Constructed(op, input, r) ==
    /\ coinsOp' = [input |-> input, op |-> op]
    /\ coinsRes' = r
    /\ coins' = IF IsOk(r) THEN r.val ELSE coins

FromStr ==
    /\ Fresh
    /\ \E s \in Strings : Constructed("from_str", s, from_str(s))

TryFromVec ==
    /\ Fresh
    /\ \E v \in Vectors : Constructed("try_from", v, try_from(v))

Deserialize ==
    /\ Fresh
    /\ \E j \in JsonArrays : Constructed("deserialize", j, visit_seq(j))

Serialize ==
    /\ Fresh
    /\ \E c \in CoinsValues :
           /\ coinsOp' = [input |-> c, op |-> "serialize"]
           /\ coinsRes' = Ok(serialize(c))
           /\ coins' = c

Display ==
    /\ Fresh
    /\ \E c \in CoinsValues :
           /\ coinsOp' = [input |-> c, op |-> "to_string"]
           /\ coinsRes' = Ok(to_string(c))
           /\ coins' = c

-----------------------------------------------------------------------------
(* Hashing and address derivation *)

\* hash: Binary -> Hash. A fixed injective scrambling of the blob numbers;
\* a digest is never equal to the blob it was computed from.
hash(wasm_byte_code) == 10 + ((7 * wasm_byte_code + 3) % 11)

\* Addr::compute(sender, code_hash, salt): one address per triple.
AddrCompute(sender, code_hash, salt) == 1000 + sender * 100 + code_hash * 2 + salt

-----------------------------------------------------------------------------
(* The store: one map from raw keys (byte strings, here sequences) to      *)
(* values. Registries and contract storage live in it under key prefixes.  *)

CONFIG_KEY         == <<"config">>
CHAIN_ID_KEY       == <<"chain_id">>
CODES_NAMESPACE    == <<"c">>
ACCOUNTS_NAMESPACE == <<"a">>
CONTRACT_NAMESPACE == <<"w">>

EmptyStore == [k \in {} |-> 0]

StorageRead(st, key)       == IF key \in DOMAIN st THEN Some(st[key]) ELSE None
StorageWrite(st, key, val) == MapInsert(st, key, val)

\* Errors: a kind and what it is about.
DataNotFound(key)  == [detail |-> key, kind |-> "DataNotFound"]
AlreadyExists(key) == [detail |-> key, kind |-> "AlreadyExists"]
VmError(kind)      == [detail |-> <<>>, kind |-> kind]
GuestError         == [detail |-> <<>>, kind |-> "Generic"]

\* Item::load and Map::load: the value, or a not-found error naming the key.
Load(st, key) ==
    IF key \in DOMAIN st THEN Ok(st[key]) ELSE Err(DataNotFound(key))

CodeKey(code_hash)  == CODES_NAMESPACE \o <<code_hash>>
AccountKey(address) == ACCOUNTS_NAMESPACE \o <<address>>

\* PrefixStore::new(store, &[CONTRACT_NAMESPACE, &address]): the namespaces
\* are concatenated into the prefix put before every key of the view.
PrefixStoreNew(address) == CONTRACT_NAMESPACE \o <<address>>

PrefixRead(st, prefix, key)       == StorageRead(st, prefix \o key)
PrefixWrite(st, prefix, key, val) == StorageWrite(st, prefix \o key, val)

IsPrefixOf(p, k) == Len(p) =< Len(k) /\ SubSeq(k, 1, Len(p)) = p

Account(code_hash, admin) == [admin |-> admin, code_hash |-> code_hash]

-----------------------------------------------------------------------------
(* The sandbox instance. The guest is untrusted bytecode: what it does in  *)
(* a call (whether it builds, what it writes, what it returns) is drawn    *)
(* from GuestBehaviours by the caller of the handlers.                     *)

GuestKey == <<"k">>
GuestVal == "v"

\* A message a response may ask the engine to run.
SubMsg(b) == [type |-> "StoreCode", wasm_byte_code |-> b]

Response(attributes, msgs) == [attributes |-> attributes, msgs |-> msgs]

GenericOk(v)  == [tag |-> "GenericOk", val |-> v]
GenericErr(m) == [msg |-> m, tag |-> "GenericErr"]

\* GenericResult::into_std_result
into_std_result(r) ==
    IF r.tag = "GenericOk" THEN Ok(r.val) ELSE Err(GuestError)

\* Instance::build_from_code
build_from_code(wasm_byte_code, beh) ==
    IF beh.build THEN Ok(wasm_byte_code) ELSE Err(VmError("Instantiation"))

\* Instance::call_<entry>: the guest runs over its storage view; every write
\* goes to the backing store at once, under the view's prefix. The host-level
\* result is an error (the guest trapped) or the guest's own result.
call_entry(entry, st, prefix, code, ctx, msg, beh) ==
    LET after == IF beh.write
                 THEN PrefixWrite(st, prefix, GuestKey, GuestVal)
                 ELSE st
        ret   == CASE beh.out = "GasDepletion" -> Err(VmError("GasDepletion"))
                   [] beh.out = "GuestErr"     -> Ok(GenericErr("rejected"))
                   [] OTHER -> Ok(GenericOk(Response(beh.attributes, beh.msgs)))
    IN [call  |-> [after |-> after, before |-> st, code |-> code,
                   ctx |-> ctx, entry |-> entry, msg |-> msg,
                   prefix |-> prefix, ret |-> ret],
        ret   |-> ret,
        store |-> after]

-----------------------------------------------------------------------------
(* What a handler leaves behind: its return value, the store, the calls it *)
(* made, the steps it took and the records it logged.                      *)

Outcome(res, st, cs, ss) ==
    [calls |-> cs, logs |-> <<>>, res |-> res, steps |-> ss, store |-> st]

Step(name, r) == [res |-> IF IsOk(r) THEN Ok(Unit) ELSE r, step |-> name]

Log(level, message, fields) ==
    [fields |-> fields, level |-> level, message |-> message]

\* debug_assert!(cond): checked only in a build with debug assertions.
DebugAssertFails(cond) == debug_assertions /\ ~cond

-----------------------------------------------------------------------------
(* store code: execute.rs 43-66 *)

\* A store_code that writes over a digest already present.
_store_code_overwriting(st, wasm_byte_code) ==
    LET code_hash == hash(wasm_byte_code) IN
    Outcome(Ok(code_hash),
            StorageWrite(st, CodeKey(code_hash), wasm_byte_code),
            <<>>,
            <<Step("ensure", Ok(Unit)), Step("CODES.save", Ok(Unit))>>)

_store_code(st, wasm_byte_code) ==
    LET code_hash == hash(wasm_byte_code) IN
    IF CodeKey(code_hash) \in DOMAIN st
    THEN LET e == Err(AlreadyExists(CodeKey(code_hash))) IN
         Outcome(e, st, <<>>, <<Step("ensure", e)>>)
    ELSE Outcome(Ok(code_hash),
                 StorageWrite(st, CodeKey(code_hash), wasm_byte_code),
                 <<>>,
                 <<Step("ensure", Ok(Unit)), Step("CODES.save", Ok(Unit))>>)

store_code_match(r) ==
    CASE IsOk(r.res) ->
           [r EXCEPT !.res = Ok(Unit),
                     !.logs = <<Log("info", "stored code",
                                    [code_hash |-> r.res.val])>>]
      [] IsErr(r.res) ->
           [r EXCEPT !.logs = <<Log("warn", "failed to store code",
                                    [err |-> r.res.err])>>]
      [] OTHER -> r

store_code(st, wasm_byte_code) ==
    store_code_match(_store_code(st, wasm_byte_code))

-----------------------------------------------------------------------------
(* transfer: execute.rs 70-128 *)

TransferMsg(from, to, coins_) == [coins |-> coins_, from |-> from, to |-> to]

\* A view over the contracts' namespace as a whole.
_transfer_substore_unscoped(cfg) == CONTRACT_NAMESPACE

\* execute.rs 107: the bank runs over the bank's namespace.
_transfer_substore(cfg) == PrefixStoreNew(cfg.bank)

_transfer(st, block, from, to, coins_, beh) ==
    LET cfg == Load(st, CONFIG_KEY)
        s1  == <<Step("CONFIG.load", cfg)>>
    IN
    IF IsErr(cfg) THEN Outcome(cfg, st, <<>>, s1) ELSE
    LET account == Load(st, AccountKey(cfg.val.bank))
        s2      == s1 \o <<Step("ACCOUNTS.load", account)>>
    IN
    IF IsErr(account) THEN Outcome(account, st, <<>>, s2) ELSE
    LET wasm_byte_code == Load(st, CodeKey(account.val.code_hash))
        s3             == s2 \o <<Step("CODES.load", wasm_byte_code)>>
    IN
    IF IsErr(wasm_byte_code) THEN Outcome(wasm_byte_code, st, <<>>, s3) ELSE
    LET substore == _transfer_substore(cfg.val)
        instance == build_from_code(wasm_byte_code.val, beh)
        s4       == s3 \o <<Step("build_from_code", instance)>>
    IN
    IF IsErr(instance) THEN Outcome(instance, st, <<>>, s4) ELSE
    LET ctx == [block    |-> block,
                contract |-> cfg.val.bank,
                sender   |-> None,
                simulate |-> None]
        msg == TransferMsg(from, to, coins_)
        c   == call_entry("transfer", st, substore, instance.val, ctx, msg, beh)
        s5  == s4 \o <<Step("call_transfer", c.ret)>>
    IN
    IF IsErr(c.ret) THEN Outcome(c.ret, c.store, <<c.call>>, s5) ELSE
    LET resp == into_std_result(c.ret.val)
        s6   == s5 \o <<Step("into_std_result", resp)>>
    IN
    IF IsErr(resp) THEN Outcome(resp, c.store, <<c.call>>, s6) ELSE
    IF DebugAssertFails(resp.val.msgs = <<>>)
    THEN Outcome(Panic, c.store, <<c.call>>, s6 \o <<Step("debug_assert", Panic)>>)
    ELSE Outcome(Ok(msg), c.store, <<c.call>>, s6)

transfer_match(r) ==
    CASE IsOk(r.res) ->
           [r EXCEPT !.res = Ok(Unit),
                     !.logs = <<Log("info", "transferred coins",
                                    [coins |-> r.res.val.coins,
                                     from  |-> r.res.val.from,
                                     to    |-> r.res.val.to])>>]
      [] IsErr(r.res) ->
           [r EXCEPT !.logs = <<Log("warn", "failed to transfer coins",
                                    [err |-> r.res.err])>>]
      [] OTHER -> r

transfer(st, block, from, to, coins_, beh) ==
    transfer_match(_transfer(st, block, from, to, coins_, beh))

-----------------------------------------------------------------------------
(* instantiate: execute.rs 133-201 *)

\* An update that writes the account whether or not one is there.
AccountsUpdateOverwriting(st, address, code_hash, admin) ==
    [res   |-> Ok(Unit),
     store |-> StorageWrite(st, AccountKey(address), Account(code_hash, admin))]

\* An update that files the account under its admin when it has one.
AccountsUpdateAtAdmin(st, address, code_hash, admin) ==
    IF StorageRead(st, AccountKey(IF admin.some THEN admin.val ELSE address)).some
    THEN [res |-> Err(AlreadyExists(AccountKey(address))), store |-> st]
    ELSE [res   |-> Ok(Unit),
          store |-> StorageWrite(st,
                        AccountKey(IF admin.some THEN admin.val ELSE address),
                        Account(code_hash, admin))]

\* execute.rs 174-177: ACCOUNTS.update with the closure of _instantiate; an
\* account may be written only where there is none.
AccountsUpdate(st, address, code_hash, admin) ==
    IF StorageRead(st, AccountKey(address)).some
    THEN [res |-> Err(AlreadyExists(AccountKey(address))), store |-> st]
    ELSE [res   |-> Ok(Unit),
          store |-> StorageWrite(st, AccountKey(address), Account(code_hash, admin))]

\* execute.rs 179-182: make the coin transfers.
_instantiate_transfer(st, block, sender, address, funds, beh) ==
    IF ~is_empty(funds)
    THEN _transfer(st, block, sender, address, funds, beh)
    ELSE Outcome(Ok(Unit), st, <<>>, <<>>)

\* execute.rs 185
_instantiate_substore(sender, address) == PrefixStoreNew(address)

\* execute.rs 184-200: the statements after the transfer; t is what the
\* transfer left behind and s2 the steps taken before it.
_instantiate_call(block, sender, msg, funds, env, wasm_byte_code, address, t, s2) ==
    LET s3 == IF ~is_empty(funds)
              THEN s2 \o t.steps \o <<Step("_transfer", t.res)>>
              ELSE s2
    IN
    IF ~IsOk(t.res) THEN Outcome(t.res, t.store, t.calls, s3) ELSE
    LET substore == _instantiate_substore(sender, address)
        instance == build_from_code(wasm_byte_code, env.target)
        s4       == s3 \o <<Step("build_from_code", instance)>>
    IN
    IF IsErr(instance) THEN Outcome(instance, t.store, t.calls, s4) ELSE
    LET ctx == [block    |-> block,
                contract |-> address,
                sender   |-> Some(sender),
                simulate |-> None]
        c   == call_entry("instantiate", t.store, substore, instance.val, ctx,
                          msg, env.target)
        cs  == t.calls \o <<c.call>>
        s5  == s4 \o <<Step("call_instantiate", c.ret)>>
    IN
    IF IsErr(c.ret) THEN Outcome(c.ret, c.store, cs, s5) ELSE
    LET resp == into_std_result(c.ret.val)
        s6   == s5 \o <<Step("into_std_result", resp)>>
    IN
    IF IsErr(resp) THEN Outcome(resp, c.store, cs, s6) ELSE
    IF DebugAssertFails(resp.val.msgs = <<>>)
    THEN Outcome(Panic, c.store, cs, s6 \o <<Step("debug_assert", Panic)>>)
    ELSE Outcome(Ok(ctx.contract), c.store, cs, s6)

\* An _instantiate that saves the account before it looks for the code.
_instantiate_updating_first(st, block, sender, code_hash, msg, salt, funds, admin, env) ==
    LET address == AddrCompute(sender, code_hash, salt)
        upd     == AccountsUpdate(st, address, code_hash, admin)
        s1      == <<Step("ACCOUNTS.update", upd.res)>>
    IN
    IF IsErr(upd.res) THEN Outcome(upd.res, upd.store, <<>>, s1) ELSE
    LET wasm_byte_code == Load(upd.store, CodeKey(code_hash))
        s2             == s1 \o <<Step("CODES.load", wasm_byte_code)>>
    IN
    IF IsErr(wasm_byte_code) THEN Outcome(wasm_byte_code, upd.store, <<>>, s2) ELSE
    _instantiate_call(block, sender, msg, funds, env, wasm_byte_code.val, address,
                      _instantiate_transfer(upd.store, block, sender, address,
                                            funds, env.bank),
                      s2)

_instantiate(st, block, sender, code_hash, msg, salt, funds, admin, env) ==
    LET wasm_byte_code == Load(st, CodeKey(code_hash))
        s1             == <<Step("CODES.load", wasm_byte_code)>>
    IN
    IF IsErr(wasm_byte_code) THEN Outcome(wasm_byte_code, st, <<>>, s1) ELSE
    LET address == AddrCompute(sender, code_hash, salt)
        upd     == AccountsUpdate(st, address, code_hash, admin)
        s2      == s1 \o <<Step("ACCOUNTS.update", upd.res)>>
    IN
    IF IsErr(upd.res) THEN Outcome(upd.res, upd.store, <<>>, s2) ELSE
    _instantiate_call(block, sender, msg, funds, env, wasm_byte_code.val, address,
                      _instantiate_transfer(upd.store, block, sender, address,
                                            funds, env.bank),
                      s2)

instantiate_match(r) ==
    CASE IsOk(r.res) ->
           [r EXCEPT !.res = Ok(Unit),
                     !.logs = <<Log("info", "instantiated contract",
                                    [address |-> r.res.val])>>]
      [] IsErr(r.res) ->
           [r EXCEPT !.logs = <<Log("warn", "failed to instantiate contract",
                                    [err |-> r.res.err])>>]
      [] OTHER -> r

instantiate(st, block, sender, code_hash, msg, salt, funds, admin, env) ==
    instantiate_match(_instantiate(st, block, sender, code_hash, msg, salt, funds, admin, env))

-----------------------------------------------------------------------------
(* execute: execute.rs 205-259 *)

\* A transfer stanza that never runs the transfer.
_execute_transfer_skipping(st, block, contract, sender, funds, beh) ==
    Outcome(Ok(Unit), st, <<>>, <<>>)

\* A transfer whose failure is not looked at.
_execute_transfer_ignoring(st, block, contract, sender, funds, beh) ==
    IF ~is_empty(funds)
    THEN [_transfer(st, block, sender, contract, funds, beh) EXCEPT !.res = Ok(Unit)]
    ELSE Outcome(Ok(Unit), st, <<>>, <<>>)

\* execute.rs 233-236: make the coin transfers.
_execute_transfer(st, block, contract, sender, funds, beh) ==
    IF ~is_empty(funds)
    THEN _transfer(st, block, sender, contract, funds, beh)
    ELSE Outcome(Ok(Unit), st, <<>>, <<>>)

\* A storage view scoped to the caller instead of the contract.
_execute_substore_of_sender(contract, sender) == PrefixStoreNew(sender)

\* execute.rs 243
_execute_substore(contract, sender) == PrefixStoreNew(contract)

\* execute.rs 238-258: the statements after the transfer; t is what the
\* transfer left behind.
_execute_call(block, contract, sender, msg, funds, env, t) ==
    LET s1 == IF ~is_empty(funds)
              THEN t.steps \o <<Step("_transfer", t.res)>>
              ELSE <<>>
    IN
    IF ~IsOk(t.res) THEN Outcome(t.res, t.store, t.calls, s1) ELSE
    LET account == Load(t.store, AccountKey(contract))
        s2      == s1 \o <<Step("ACCOUNTS.load", account)>>
    IN
    IF IsErr(account) THEN Outcome(account, t.store, t.calls, s2) ELSE
    LET wasm_byte_code == Load(t.store, CodeKey(account.val.code_hash))
        s3             == s2 \o <<Step("CODES.load", wasm_byte_code)>>
    IN
    IF IsErr(wasm_byte_code) THEN Outcome(wasm_byte_code, t.store, t.calls, s3) ELSE
    LET substore == _execute_substore(contract, sender)
        instance == build_from_code(wasm_byte_code.val, env.target)
        s4       == s3 \o <<Step("build_from_code", instance)>>
    IN
    IF IsErr(instance) THEN Outcome(instance, t.store, t.calls, s4) ELSE
    LET ctx == [block    |-> block,
                contract |-> contract,
                sender   |-> Some(sender),
                simulate |-> None]
        c   == call_entry("execute", t.store, substore, instance.val, ctx, msg,
                          env.target)
        cs  == t.calls \o <<c.call>>
        s5  == s4 \o <<Step("call_execute", c.ret)>>
    IN
    IF IsErr(c.ret) THEN Outcome(c.ret, c.store, cs, s5) ELSE
    LET resp == into_std_result(c.ret.val)
        s6   == s5 \o <<Step("into_std_result", resp)>>
    IN
    IF IsErr(resp) THEN Outcome(resp, c.store, cs, s6) ELSE
    IF DebugAssertFails(resp.val.msgs = <<>>)
    THEN Outcome(Panic, c.store, cs, s6 \o <<Step("debug_assert", Panic)>>)
    ELSE Outcome(Ok(Unit), c.store, cs, s6)

_execute(st, block, contract, sender, msg, funds, env) ==
    _execute_call(block, contract, sender, msg, funds, env,
                  _execute_transfer(st, block, contract, sender, funds, env.bank))

\* A wrapper that logs the error and reports success.
execute_swallowing_match(contract, r) ==
    CASE IsOk(r.res) ->
           [r EXCEPT !.logs = <<Log("info", "executed contract",
                                    [contract |-> contract])>>]
      [] IsErr(r.res) ->
           [r EXCEPT !.res = Ok(Unit),
                     !.logs = <<Log("warn", "failed to execute contract",
                                    [err |-> r.res.err])>>]
      [] OTHER -> r

execute_swallowing(st, block, contract, sender, msg, funds, env) ==
    execute_swallowing_match(contract, _execute(st, block, sender, contract, msg, funds, env))

\* The parameters are (store, block, contract, sender, msg, funds), and the
\* call of _execute passes `sender` second and `contract` third.
execute_match(contract, r) ==
    CASE IsOk(r.res) ->
           [r EXCEPT !.logs = <<Log("info", "executed contract",
                                    [contract |-> contract])>>]
      [] IsErr(r.res) ->
           [r EXCEPT !.logs = <<Log("warn", "failed to execute contract",
                                    [err |-> r.res.err])>>]
      [] OTHER -> r

\* A wrapper that hands its parameters to _execute in the order it declares
\* them.
execute_in_declared_order(st, block, contract, sender, msg, funds, env) ==
    execute_match(contract,
                  _execute(st, block, contract, sender, msg, funds, env))

execute(st, block, contract, sender, msg, funds, env) ==
    execute_match(contract, _execute(st, block, sender, contract, msg, funds, env))

-----------------------------------------------------------------------------
(* process_msg: execute.rs 12-39 *)

process_msg(st, block, sender, msg, env) ==
    CASE msg.type = "Transfer" ->
           transfer(st, block, sender, msg.to, msg.coins, env.bank)
      [] msg.type = "StoreCode" ->
           store_code(st, msg.wasm_byte_code)
      [] msg.type = "Instantiate" ->
           instantiate(st, block, sender, msg.code_hash, msg.msg, msg.salt,
                       msg.funds, msg.admin, env)
      [] msg.type = "Execute" ->
           \* execute(store, block, sender, &contract, msg, funds)
           execute(st, block, sender, msg.contract, msg.msg, msg.funds, env)

-----------------------------------------------------------------------------
(* Transaction hooks: execute/account.rs *)

\* impl From<VmError> for AppError (vm/wasm/src/error.rs 99-103): the error
\* is kept as its message.
AppErrorFromVm(e) == [detail |-> <<e.kind>> \o e.detail, kind |-> "AppError::Vm"]

\* StdError into AppError.
AppErrorFromStd(e) == [detail |-> <<e.kind>> \o e.detail, kind |-> "AppError::Std"]

MapErr(r, F(_)) == IF IsErr(r) THEN Err(F(r.err)) ELSE r

new_before_tx_event(sender, attributes) ==
    [attributes |-> attributes, kind |-> "before_tx", sender |-> sender]

new_after_tx_event(sender, attributes) ==
    [attributes |-> attributes, kind |-> "after_tx", sender |-> sender]

new_submsg_event(sender, msg) ==
    [attributes |-> <<"code_hash", ToString(hash(msg.wasm_byte_code))>>,
     kind       |-> "store_code",
     sender     |-> sender]

NoEnv == [bank |-> [build |-> FALSE], target |-> [build |-> FALSE]]

\* handle_submessages(store, block, sender, submsgs): each submessage goes
\* through the dispatcher in order, with the emitting contract as sender; the
\* first failure ends the run, and each success adds one event.
RECURSIVE handle_submessages(_, _, _, _)

\* The events of a submessage that went through and of those after it.
handle_submessages_rest(sender, submsg, rest) ==
    IF ~IsOk(rest.res) THEN rest ELSE
    [res   |-> Ok(<<new_submsg_event(sender, submsg)>> \o rest.res.val),
     store |-> rest.store]

\* r is what the dispatcher left behind for the first submessage.
handle_submessages_dispatched(block, sender, submsgs, r) ==
    IF ~IsOk(r.res) THEN [res |-> r.res, store |-> r.store] ELSE
    handle_submessages_rest(sender, Head(submsgs),
                            handle_submessages(r.store, block, sender, Tail(submsgs)))

handle_submessages(st, block, sender, submsgs) ==
    IF submsgs = <<>> THEN [res |-> Ok(<<>>), store |-> st] ELSE
    handle_submessages_dispatched(block, sender, submsgs,
                                  process_msg(st, block, sender, Head(submsgs), NoEnv))

\* account.rs 41
_before_tx_substore(tx) == PrefixStoreNew(tx.sender)

\* A hook context that names the sender as the caller.
_before_tx_ctx_with_caller(chain_id, block, tx) ==
    [block_hash      |-> block.hash,
     block_height    |-> block.height,
     block_timestamp |-> block.timestamp,
     chain_id        |-> chain_id,
     contract        |-> tx.sender,
     funds           |-> None,
     sender          |-> Some(tx.sender),
     simulate        |-> Some(FALSE),
     submsg_result   |-> None]

\* account.rs 46-56
_before_tx_ctx(chain_id, block, tx) ==
    [block_hash      |-> block.hash,
     block_height    |-> block.height,
     block_timestamp |-> block.timestamp,
     chain_id        |-> chain_id,
     contract        |-> tx.sender,
     funds           |-> None,
     sender          |-> None,
     simulate        |-> Some(FALSE),
     submsg_result   |-> None]

\* The event list of before_tx built with the event of the other hook.
_before_tx_events_of_after(contract, attributes, submsg_events) ==
    <<new_after_tx_event(contract, attributes)>> \o submsg_events

\* account.rs 60-63: the hook's event, then the submessages' events.
_before_tx_events(contract, attributes, submsg_events) ==
    <<new_before_tx_event(contract, attributes)>> \o submsg_events

\* account.rs 60-63: sub is what handle_submessages left behind.
_before_tx_handled(call, attributes, s6, sub) ==
    LET s7 == s6 \o <<Step("handle_submessages", sub.res)>> IN
    IF ~IsOk(sub.res) THEN Outcome(sub.res, sub.store, <<call>>, s7) ELSE
    Outcome(Ok(_before_tx_events(call.ctx.contract, attributes, sub.res.val)),
            sub.store, <<call>>, s7)

_before_tx(st, block, tx, beh) ==
    LET chain_id == MapErr(Load(st, CHAIN_ID_KEY), AppErrorFromStd)
        s1       == <<Step("CHAIN_ID.load", chain_id)>>
    IN
    IF IsErr(chain_id) THEN Outcome(chain_id, st, <<>>, s1) ELSE
    LET account == MapErr(Load(st, AccountKey(tx.sender)), AppErrorFromStd)
        s2      == s1 \o <<Step("ACCOUNTS.load", account)>>
    IN
    IF IsErr(account) THEN Outcome(account, st, <<>>, s2) ELSE
    LET wasm_byte_code == MapErr(Load(st, CodeKey(account.val.code_hash)),
                                 AppErrorFromStd)
        s3             == s2 \o <<Step("CODES.load", wasm_byte_code)>>
    IN
    IF IsErr(wasm_byte_code) THEN Outcome(wasm_byte_code, st, <<>>, s3) ELSE
    LET substore == _before_tx_substore(tx)
        instance == MapErr(build_from_code(wasm_byte_code.val, beh), AppErrorFromVm)
        s4       == s3 \o <<Step("build_from_code", instance)>>
    IN
    IF IsErr(instance) THEN Outcome(instance, st, <<>>, s4) ELSE
    LET ctx == _before_tx_ctx(chain_id.val, block, tx)
        c   == call_entry("before_tx", st, substore, instance.val, ctx, tx, beh)
        ret == MapErr(c.ret, AppErrorFromVm)
        s5  == s4 \o <<Step("call_before_tx", ret)>>
    IN
    IF IsErr(ret) THEN Outcome(ret, c.store, <<c.call>>, s5) ELSE
    LET resp == MapErr(into_std_result(ret.val), AppErrorFromStd)
        s6   == s5 \o <<Step("into_std_result", resp)>>
    IN
    IF IsErr(resp) THEN Outcome(resp, c.store, <<c.call>>, s6) ELSE
    \* resp.submsgs in account.rs
    _before_tx_handled(c.call, resp.val.attributes, s6,
                    handle_submessages(c.store, block, ctx.contract, resp.val.msgs))

\* A wrapper that answers a failed hook with an empty event list.
before_tx_match_failing_open(tx, r) ==
    IF IsOk(r.res)
    THEN [r EXCEPT !.logs = <<Log("debug", "Before transaction hook called",
                                  [sender |-> tx.sender])>>]
    ELSE [r EXCEPT !.logs = <<Log("warn", "Failed to call before transaction hook",
                                  [err |-> r.res.err])>>,
                   !.res = Ok(<<>>)]

before_tx_match(tx, r) ==
    CASE IsOk(r.res) ->
           [r EXCEPT !.logs = <<Log("debug", "Before transaction hook called",
                                    [sender |-> tx.sender])>>]
      [] IsErr(r.res) ->
           [r EXCEPT !.logs = <<Log("warn", "Failed to call before transaction hook",
                                    [err |-> r.res.err])>>]
      [] OTHER -> r

before_tx(st, block, tx, beh) ==
    before_tx_match(tx, _before_tx(st, block, tx, beh))

\* account.rs 97
_after_tx_substore(tx) == PrefixStoreNew(tx.sender)

\* account.rs 102-112
_after_tx_ctx(chain_id, block, tx) ==
    [block_hash      |-> block.hash,
     block_height    |-> block.height,
     block_timestamp |-> block.timestamp,
     chain_id        |-> chain_id,
     contract        |-> tx.sender,
     funds           |-> None,
     sender          |-> None,
     simulate        |-> Some(FALSE),
     submsg_result   |-> None]

\* account.rs 116-119: the hook's event, then the submessages' events.
_after_tx_events(contract, attributes, submsg_events) ==
    <<new_after_tx_event(contract, attributes)>> \o submsg_events

\* account.rs 116-119: sub is what handle_submessages left behind.
_after_tx_handled(call, attributes, s6, sub) ==
    LET s7 == s6 \o <<Step("handle_submessages", sub.res)>> IN
    IF ~IsOk(sub.res) THEN Outcome(sub.res, sub.store, <<call>>, s7) ELSE
    Outcome(Ok(_after_tx_events(call.ctx.contract, attributes, sub.res.val)),
            sub.store, <<call>>, s7)

_after_tx(st, block, tx, beh) ==
    LET chain_id == MapErr(Load(st, CHAIN_ID_KEY), AppErrorFromStd)
        s1       == <<Step("CHAIN_ID.load", chain_id)>>
    IN
    IF IsErr(chain_id) THEN Outcome(chain_id, st, <<>>, s1) ELSE
    LET account == MapErr(Load(st, AccountKey(tx.sender)), AppErrorFromStd)
        s2      == s1 \o <<Step("ACCOUNTS.load", account)>>
    IN
    IF IsErr(account) THEN Outcome(account, st, <<>>, s2) ELSE
    LET wasm_byte_code == MapErr(Load(st, CodeKey(account.val.code_hash)),
                                 AppErrorFromStd)
        s3             == s2 \o <<Step("CODES.load", wasm_byte_code)>>
    IN
    IF IsErr(wasm_byte_code) THEN Outcome(wasm_byte_code, st, <<>>, s3) ELSE
    LET substore == _after_tx_substore(tx)
        instance == MapErr(build_from_code(wasm_byte_code.val, beh), AppErrorFromVm)
        s4       == s3 \o <<Step("build_from_code", instance)>>
    IN
    IF IsErr(instance) THEN Outcome(instance, st, <<>>, s4) ELSE
    LET ctx == _after_tx_ctx(chain_id.val, block, tx)
        c   == call_entry("after_tx", st, substore, instance.val, ctx, tx, beh)
        ret == MapErr(c.ret, AppErrorFromVm)
        s5  == s4 \o <<Step("call_after_tx", ret)>>
    IN
    IF IsErr(ret) THEN Outcome(ret, c.store, <<c.call>>, s5) ELSE
    LET resp == MapErr(into_std_result(ret.val), AppErrorFromStd)
        s6   == s5 \o <<Step("into_std_result", resp)>>
    IN
    IF IsErr(resp) THEN Outcome(resp, c.store, <<c.call>>, s6) ELSE
    \* resp.submsgs in account.rs
    _after_tx_handled(c.call, resp.val.attributes, s6,
                    handle_submessages(c.store, block, ctx.contract, resp.val.msgs))

after_tx_match(tx, r) ==
    CASE IsOk(r.res) ->
           [r EXCEPT !.logs = <<Log("debug", "After transaction hook called",
                                    [sender |-> tx.sender])>>]
      [] IsErr(r.res) ->
           [r EXCEPT !.logs = <<Log("warn", "Failed to call after transaction hook",
                                    [err |-> r.res.err])>>]
      [] OTHER -> r

after_tx(st, block, tx, beh) ==
    after_tx_match(tx, _after_tx(st, block, tx, beh))

-----------------------------------------------------------------------------
(* Inputs *)

\* Bytecode blobs are numbers: the bank's, and the ones users submit.
BankCode == 0
Blobs    == {1, 2}
Hashes   == {hash(b) : b \in Blobs \cup {BankCode}}
Senders == {1, 2}
Salts   == {0}
Admins  == {None, Some(1)}
Funds   == {EmptyCoins, [d \in {"uatom"} |-> 1]}
Blocks  == {[hash |-> "b1", height |-> 1, timestamp |-> 10],
            [hash |-> "b2", height |-> 2, timestamp |-> 20]}

Derived  == {AddrCompute(s, h, salt) : s \in Senders, h \in Hashes, salt \in Salts}
BankAddr == AddrCompute(1, hash(BankCode), 0)
Addrs    == Senders \cup Derived
Payees   == Senders \cup {BankAddr}

\* The store after genesis: the chain id and the config are set, and the
\* deployer (address 1) has stored the bank's code and instantiated it.
GenesisStore ==
    LET s1 == StorageWrite(EmptyStore, CHAIN_ID_KEY, "grug-1")
        s2 == StorageWrite(s1, CONFIG_KEY, [bank |-> BankAddr])
        s3 == StorageWrite(s2, CodeKey(hash(BankCode)), BankCode)
    IN StorageWrite(s3, AccountKey(BankAddr), Account(hash(BankCode), None))

Beh(build, write, out, attributes, msgs) ==
    [attributes |-> attributes, build |-> build, msgs |-> msgs,
     out |-> out, write |-> write]

NoBeh == Beh(FALSE, FALSE, "Ok", <<>>, <<>>)

\* What a guest may do in a call made by process_msg.
GuestBehaviours ==
    { NoBeh,
      Beh(TRUE, FALSE, "Ok", <<>>, <<>>),
      Beh(TRUE, TRUE, "Ok", <<>>, <<>>),
      Beh(TRUE, TRUE, "GasDepletion", <<>>, <<>>),
      Beh(TRUE, FALSE, "GuestErr", <<>>, <<>>),
      Beh(TRUE, TRUE, "Ok", <<>>, <<SubMsg(1)>>) }

\* What the bank may do in the transfer of a message's funds.
BankBehaviours ==
    { NoBeh,
      Beh(TRUE, FALSE, "GuestErr", <<>>, <<>>),
      Beh(TRUE, TRUE, "Ok", <<>>, <<>>),
      Beh(TRUE, TRUE, "Ok", <<>>, <<SubMsg(1)>>) }

\* What a guest may do in a hook call.
HookBehaviours ==
    { NoBeh,
      Beh(TRUE, FALSE, "Ok", <<>>, <<>>),
      Beh(TRUE, TRUE, "Ok", <<"a">>, <<>>),
      Beh(TRUE, TRUE, "GasDepletion", <<>>, <<>>),
      Beh(TRUE, FALSE, "GuestErr", <<>>, <<>>),
      Beh(TRUE, FALSE, "Ok", <<"a">>, <<SubMsg(1)>>),
      Beh(TRUE, TRUE, "Ok", <<>>, <<SubMsg(2), SubMsg(1)>>),
      Beh(TRUE, FALSE, "Ok", <<>>, <<SubMsg(BankCode)>>) }

\* The behaviours of the bank and of the target in one message: the
\* target's matters only where the transfer lets the handler go on.
Envs(funds) ==
    IF is_empty(funds)
    THEN {[bank |-> NoBeh, target |-> t] : t \in GuestBehaviours}
    ELSE {[bank |-> b, target |-> NoBeh] :
              b \in {g \in BankBehaviours : ~g.build \/ g.out # "Ok"}}
         \cup {[bank |-> b, target |-> t] :
                  b \in {g \in BankBehaviours : g.build /\ g.out = "Ok"},
                  t \in GuestBehaviours}

-----------------------------------------------------------------------------
(* The engine specification *)

NoCall == [op |-> "none"]

\* One call runs at a time: the next starts once the caller has taken the
\* result of the one before.
Ready == last = NoCall /\ ops < MaxOps

Took(call, r) ==
    /\ ops'    = ops + 1
    /\ last'   = call
    /\ store'  = r.store
    /\ result' = r.res
    /\ calls'  = r.calls
    /\ steps'  = r.steps
    /\ logs'   = r.logs
    /\ UNCHANGED <<debug_assertions, coinVars>>

ProcessMsg(block, sender, msg, env) ==
    Took([block |-> block, msg |-> msg, op |-> "process_msg", sender |-> sender],
         process_msg(store, block, sender, msg, env))

Transfer ==
    \E block \in Blocks, sender \in Senders, to \in Payees, coins_ \in Funds,
       bank \in GuestBehaviours :
        /\ Ready
        /\ ProcessMsg(block, sender,
                      [coins |-> coins_, to |-> to, type |-> "Transfer"],
                      [bank |-> bank, target |-> NoBeh])

StoreCode ==
    \E block \in Blocks, sender \in Senders, b \in Blobs :
        /\ Ready
        /\ ProcessMsg(block, sender,
                      [type |-> "StoreCode", wasm_byte_code |-> b],
                      NoEnv)

Instantiate ==
    \E block \in Blocks, sender \in Senders, code_hash \in Hashes,
       salt \in Salts, funds \in Funds, admin \in Admins :
        \E env \in Envs(funds) :
            /\ Ready
            /\ ProcessMsg(block, sender,
                          [admin |-> admin, code_hash |-> code_hash,
                           funds |-> funds, msg |-> 1, salt |-> salt,
                           type |-> "Instantiate"],
                          env)

Execute ==
    \E block \in Blocks, sender \in Senders, contract \in Addrs, funds \in Funds :
        \E env \in Envs(funds) :
            /\ Ready
            /\ ProcessMsg(block, sender,
                          [contract |-> contract, funds |-> funds, msg |-> 1,
                           type |-> "Execute"],
                          env)

BeforeTx ==
    \E block \in Blocks, sender \in Addrs, beh \in HookBehaviours :
        /\ Ready
        /\ Took([block |-> block, op |-> "before_tx", tx |-> [sender |-> sender]],
                before_tx(store, block, [sender |-> sender], beh))

AfterTx ==
    \E block \in Blocks, sender \in Addrs, beh \in HookBehaviours :
        /\ Ready
        /\ Took([block |-> block, op |-> "after_tx", tx |-> [sender |-> sender]],
                after_tx(store, block, [sender |-> sender], beh))

\* The caller takes the result; the store stays as the call left it.
Return ==
    /\ last # NoCall
    /\ last' = NoCall
    /\ result' = Ok(Unit)
    /\ calls' = <<>>
    /\ steps' = <<>>
    /\ logs' = <<>>
    /\ UNCHANGED <<store, ops, debug_assertions, coinVars>>

InitCoins ==
    /\ coins = EmptyCoins
    /\ coinsOp = NoCoinsOp
    /\ coinsRes = Ok(Unit)

InitApp ==
    /\ last = NoCall
    /\ result = Ok(Unit)
    /\ calls = <<>>
    /\ steps = <<>>
    /\ logs = <<>>
    /\ ops = 0

Init ==
    /\ InitCoins
    /\ InitApp
    /\ store \in {EmptyStore, GenesisStore}
    /\ debug_assertions \in BOOLEAN

Next ==
    \/ Transfer
    \/ StoreCode
    \/ Instantiate
    \/ Execute
    \/ BeforeTx
    \/ AfterTx
    \/ Return

Spec == Init /\ [][Next]_vars

InitCoinsOnly ==
    /\ InitCoins
    /\ InitApp
    /\ store = EmptyStore
    /\ debug_assertions = FALSE

NextCoins ==
    \/ IncreaseAmount /\ UNCHANGED appVars
    \/ DecreaseAmount /\ UNCHANGED appVars

SpecCoins == InitCoinsOnly /\ [][NextCoins]_vars

NextCodec ==
    \/ FromStr /\ UNCHANGED appVars
    \/ TryFromVec /\ UNCHANGED appVars
    \/ Deserialize /\ UNCHANGED appVars
    \/ Serialize /\ UNCHANGED appVars
    \/ Display /\ UNCHANGED appVars

SpecCodec == InitCoinsOnly /\ [][NextCodec]_vars

-----------------------------------------------------------------------------
(* Properties of Coins, checked under SpecCoins *)

\* C1: no denomination is ever stored with a zero amount: has(d) is true
\* exactly when amount_of(d) is non-zero.
C1_NoZeroAmountStored ==
    \A d \in Denoms : has(coins, d) <=> amount_of(coins, d) # 0

\* C2: a decrease_amount of an absent denom returns DenomNotFound, one by more
\* than the stored amount returns the subtraction's error, and neither
\* changes the map.
C2_DecreaseFailsWithoutMutation ==
    [][coinsOp'.op = "decrease_amount" =>
          LET d  == coinsOp'.denom
              by == coinsOp'.by
          IN /\ d \notin DOMAIN coins =>
                    /\ IsErr(coinsRes')
                    /\ coinsRes'.err = "DenomNotFound"
                    /\ coins' = coins
             /\ (d \in DOMAIN coins /\ by > coins[d]) =>
                    /\ IsErr(coinsRes')
                    /\ coinsRes'.err = "OverflowSub"
                    /\ coins' = coins
                    /\ \A x \in Denoms : amount_of(coins', x) = amount_of(coins, x)
    ]_vars

\* A decrease of a denom that is held, by more than is held, has failed.
C2_Witness ==
    /\ coinsOp.op = "decrease_amount"
    /\ coinsOp.denom \in DOMAIN coins
    /\ coinsOp.by > coins[coinsOp.denom]
    /\ coins[coinsOp.denom] > 0
    /\ IsErr(coinsRes)

-----------------------------------------------------------------------------
(* Properties of the engine, checked under Spec *)

IsMsg(type) == last.op = "process_msg" /\ last.msg.type = type
IsHook      == last.op \in {"before_tx", "after_tx"}

\* The call returned a response (no host error, no guest error).
Responded(call) == IsOk(call.ret) /\ call.ret.val.tag = "GenericOk"
ResponseOf(call) == call.ret.val.val

\* C3: StoreCode{B} on a store without hash(B) succeeds and leaves hash(B)
\* mapped to exactly B; on a store that holds hash(B) it fails with
\* already-exists and leaves the store as it was.
C3_StoreCodeOnce ==
    [][(last'.op = "process_msg" /\ last'.msg.type = "StoreCode") =>
          LET B   == last'.msg.wasm_byte_code
              key == CodeKey(hash(B))
          IN IF key \notin DOMAIN store
             THEN /\ IsOk(result')
                  /\ store' = StorageWrite(store, key, B)
                  /\ Load(store', key) = Ok(B)
             ELSE /\ IsErr(result')
                  /\ result'.err = AlreadyExists(key)
                  /\ store' = store
    ]_vars

\* Blob 2 was stored by an earlier call, and storing it again has failed.
C3_Witness ==
    /\ IsMsg("StoreCode")
    /\ last.msg.wasm_byte_code = 2
    /\ IsErr(result)
    /\ Load(store, CodeKey(hash(2))) = Ok(2)

InstantiateAddress(sender, msg) == AddrCompute(sender, msg.code_hash, msg.salt)

\* C4: Instantiate at an address that holds an account fails with
\* already-exists whatever msg, funds and admin it carries; the store (and the
\* account in it) stays as it was and no entry point is called.
C4_InstantiateTwiceFails ==
    [][(/\ last'.op = "process_msg"
        /\ last'.msg.type = "Instantiate"
        /\ AccountKey(InstantiateAddress(last'.sender, last'.msg)) \in DOMAIN store) =>
          LET key == AccountKey(InstantiateAddress(last'.sender, last'.msg)) IN
          /\ IsErr(result')
          /\ result'.err = AlreadyExists(key)
          /\ store' = store
          /\ store'[key] = store[key]
          /\ calls' = <<>>
    ]_vars

\* A second Instantiate with funds and another admin has been turned down.
C4_Witness ==
    /\ IsMsg("Instantiate")
    /\ IsErr(result)
    /\ result.err.kind = "AlreadyExists"
    /\ ~is_empty(last.msg.funds)
    /\ store[AccountKey(InstantiateAddress(last.sender, last.msg))].admin
           # last.msg.admin
    /\ ops = 2

StepIndex(name) == CHOOSE i \in 1 .. Len(steps) : steps[i].step = name

FundedTarget ==
    IF last.msg.type = "Instantiate"
    THEN InstantiateAddress(last.sender, last.msg)
    ELSE last.msg.contract

\* C5: when Instantiate or Execute carries funds, the target's entry point
\* is called only after the bank's transfer of those funds from the sender to
\* the target has returned successfully, over the store as the transfer left
\* it; in Instantiate the account record is written before the transfer.
C5_TransferBeforeEntryPoint ==
    (/\ last.op = "process_msg"
     /\ last.msg.type \in {"Instantiate", "Execute"}
     /\ ~is_empty(last.msg.funds)) =>
        \A i \in 1 .. Len(calls) :
            calls[i].entry \in {"instantiate", "execute"} =>
                /\ i = 2
                /\ calls[1].entry = "transfer"
                /\ calls[1].msg = TransferMsg(last.sender, FundedTarget, last.msg.funds)
                /\ Responded(calls[1])
                /\ calls[2].before = calls[1].after
                /\ StepIndex("call_transfer") < StepIndex("_transfer")
                /\ IsOk(steps[StepIndex("_transfer")].res)
                /\ last.msg.type = "Instantiate" =>
                       /\ StepIndex("ACCOUNTS.update") < StepIndex("call_transfer")
                       /\ StepIndex("_transfer") < StepIndex("call_instantiate")
                       /\ Load(calls[1].before, AccountKey(FundedTarget))
                              = Ok(Account(last.msg.code_hash, last.msg.admin))
                /\ last.msg.type = "Execute" =>
                       StepIndex("_transfer") < StepIndex("call_execute")

\* An Instantiate with funds went through the transfer and the constructor.
C5_Witness ==
    /\ IsMsg("Instantiate")
    /\ ~is_empty(last.msg.funds)
    /\ Len(calls) = 2
    /\ calls[2].entry = "instantiate"
    /\ IsOk(result)

\* C6: process_msg returns Ok only if every step succeeded, and when a step
\* fails (a load, the duplicate check, the transfer, the build, the call, the
\* guest's own error) nothing runs after it but the return of its error
\* through the enclosing transfer, and its error is what is returned.
C6_NoErrorSwallowed ==
    last.op = "process_msg" =>
        /\ IsOk(result) =>
               /\ \A i \in 1 .. Len(steps) : IsOk(steps[i].res)
               /\ \A i \in 1 .. Len(calls) : Responded(calls[i])
        /\ \A i \in 1 .. Len(steps) :
               IsErr(steps[i].res) =>
                   /\ \A j \in i .. Len(steps) : steps[j].res = steps[i].res
                   /\ Len(steps) - i <= 1
                   /\ IsErr(result)
                   /\ result.err = steps[i].res.err
        /\ \A i \in 1 .. Len(calls) :
               /\ IsErr(calls[i].ret) =>
                      IsErr(result) /\ result.err = calls[i].ret.err
               /\ (IsOk(calls[i].ret) /\ calls[i].ret.val.tag = "GenericErr") =>
                      IsErr(result) /\ result.err = GuestError

\* An Execute whose transfer went through and whose target rejected the
\* message has returned the target's error.
C6_Witness ==
    /\ IsMsg("Execute")
    /\ Len(calls) = 2
    /\ IsOk(calls[2].ret)
    /\ calls[2].ret.val.tag = "GenericErr"
    /\ IsErr(result)

\* C7: a call by process_msg whose response asks for submessages never ends
\* in Ok(()).
C7_SubmessagesAreFatal ==
    last.op = "process_msg" =>
        \A i \in 1 .. Len(calls) :
            (Responded(calls[i]) /\ ResponseOf(calls[i]).msgs # <<>>) =>
                ~IsOk(result)

\* C8: a successful hook returns the hook's event (its kind, the sender's
\* address, the response's attributes) followed by one event per submessage,
\* in order; with no submessage the list has exactly one event.
C8_HookEvents ==
    (IsHook /\ IsOk(result)) =>
        /\ Len(calls) = 1
        /\ Responded(calls[1])
        /\ LET resp   == ResponseOf(calls[1])
               events == result.val
           IN /\ Len(events) = 1 + Len(resp.msgs)
              /\ events[1] = [attributes |-> resp.attributes,
                              kind       |-> last.op,
                              sender     |-> last.tx.sender]
              /\ \A i \in 1 .. Len(resp.msgs) :
                     events[i + 1] = new_submsg_event(last.tx.sender, resp.msgs[i])
              /\ resp.msgs = <<>> => events = <<events[1]>>

\* A before_tx whose response carried two different submessages returned.
C8_Witness ==
    /\ last.op = "before_tx"
    /\ IsOk(result)
    /\ Len(result.val) = 3
    /\ result.val[2] # result.val[3]

HookContext(chain_id, block, tx) ==
    [block_hash      |-> block.hash,
     block_height    |-> block.height,
     block_timestamp |-> block.timestamp,
     chain_id        |-> chain_id,
     contract        |-> tx.sender,
     funds           |-> [some |-> FALSE],
     sender          |-> [some |-> FALSE],
     simulate        |-> [some |-> TRUE, val |-> FALSE],
     submsg_result   |-> [some |-> FALSE]]

\* C9: every hook invocation gets the context with contract = the sender of
\* the transaction, no caller, no funds, simulate = false, no submessage
\* result and the fields of the current block; before_tx and after_tx build
\* equal contexts from equal (store, block, tx).
C9_HookContext ==
    /\ IsHook =>
           \A i \in 1 .. Len(calls) :
               /\ calls[i].entry = last.op
               /\ calls[i].ctx = HookContext(calls[i].before[CHAIN_ID_KEY],
                                             last.block, last.tx)
    /\ \A block \in Blocks, sender \in Addrs :
           LET tx == [sender |-> sender]
               beh == Beh(TRUE, FALSE, "Ok", <<>>, <<>>)
               b  == _before_tx(store, block, tx, beh)
               a  == _after_tx(store, block, tx, beh)
           IN /\ Len(b.calls) = Len(a.calls)
              /\ \A i \in 1 .. Len(b.calls) : b.calls[i].ctx = a.calls[i].ctx
              /\ CHAIN_ID_KEY \in DOMAIN store =>
                     _before_tx_ctx(store[CHAIN_ID_KEY], block, tx)
                         = _after_tx_ctx(store[CHAIN_ID_KEY], block, tx)

\* An after_tx hook has been invoked.
C9_Witness ==
    /\ last.op = "after_tx"
    /\ Len(calls) = 1
    /\ calls[1].ctx.contract = BankAddr
    /\ calls[1].ctx.block_height = 2

Changed(before, after) ==
    {k \in DOMAIN before \cup DOMAIN after :
        \/ k \notin DOMAIN before
        \/ k \notin DOMAIN after
        \/ before[k] # after[k]}

\* C10: in every handler the instance's storage view has the prefix
\* (CONTRACT_NAMESPACE, A) with A the contract of the call's context; what the
\* call writes lands only under that prefix, never at the raw key, and the
\* view of no other contract reads it.
C10_StorageIsolation ==
    \A i \in 1 .. Len(calls) :
        LET call == calls[i]
            A    == call.ctx.contract
        IN /\ call.prefix = CONTRACT_NAMESPACE \o <<A>>
           /\ \A k \in Changed(call.before, call.after) : IsPrefixOf(call.prefix, k)
           /\ GuestKey \notin DOMAIN call.after
           /\ \A B \in Addrs \ {A} :
                  PrefixRead(call.after, PrefixStoreNew(B), GuestKey)
                      = PrefixRead(call.before, PrefixStoreNew(B), GuestKey)

\* An Execute with funds in which the bank and the target both wrote.
C10_Witness ==
    /\ IsMsg("Execute")
    /\ Len(calls) = 2
    /\ Changed(calls[1].before, calls[1].after) # {}
    /\ Changed(calls[2].before, calls[2].after) # {}
    /\ calls[1].ctx.contract # calls[2].ctx.contract

\* C11: when an Execute message succeeds, the `contract` field of the info
\* record it logs is the contract of the message, not its sender.
C11_ExecuteLogNamesContract ==
    (IsMsg("Execute") /\ IsOk(result)) =>
        /\ Len(logs) = 1
        /\ logs[1].level = "info"
        /\ logs[1].fields.contract = last.msg.contract

AccountKeys(st) == {k \in DOMAIN st : IsPrefixOf(ACCOUNTS_NAMESPACE, k)}

\* C12: in every step of the engine an account record that exists keeps its
\* code_hash and admin and stays in the store, and a record that appears was
\* written by an Instantiate message, at the address derived from it, where
\* there was none.
C12_AccountImmutable ==
    [][/\ \A k \in AccountKeys(store) :
              /\ k \in DOMAIN store'
              /\ store'[k].code_hash = store[k].code_hash
              /\ store'[k].admin = store[k].admin
       /\ \A k \in AccountKeys(store') \ AccountKeys(store) :
              /\ last'.op = "process_msg"
              /\ last'.msg.type = "Instantiate"
              /\ k = AccountKey(InstantiateAddress(last'.sender, last'.msg))
              /\ store'[k] = Account(last'.msg.code_hash, last'.msg.admin)
    ]_vars

\* With two accounts in the store, a hook has run and its guest has written.
C12_Witness ==
    /\ Cardinality(AccountKeys(store)) >= 2
    /\ last.op = "before_tx"
    /\ Len(calls) = 1
    /\ Changed(calls[1].before, calls[1].after) # {}

\* C13: when the instantiate or execute entry point called for a message
\* aborts with GasDepletion, process_msg returns that error and the store is
\* as it was before the message: no account record, no transfer effect and
\* no guest write of that message remains.
C13_GasDepletionLeavesNoWrites ==
    [][(/\ last'.op = "process_msg"
        /\ last'.msg.type \in {"Instantiate", "Execute"}
        /\ \E i \in 1 .. Len(calls') :
               /\ calls'[i].entry \in {"instantiate", "execute"}
               /\ calls'[i].ret = Err(VmError("GasDepletion"))) =>
          /\ result' = Err(VmError("GasDepletion"))
          /\ store' = store
    ]_vars

Hook(op, st, block, tx, beh) ==
    IF op = "before_tx"
    THEN before_tx(st, block, tx, beh)
    ELSE after_tx(st, block, tx, beh)

FailsOnMissing(key, r) ==
    /\ r.res = Err(AppErrorFromStd(DataNotFound(key)))
    /\ r.calls = <<>>
    /\ r.steps[Len(r.steps)].step = "CODES.load"

\* C16: a hook returns Ok only if every step succeeded and the entry point
\* answered; when a step fails (the load of the chain id, of the sender's
\* account or of its code, the build, the call, the guest's own error, the
\* submessages) it is the last step, the hook returns that step's error as it
\* is, with no event list, and logs it as a warning.  Over a store that holds
\* the chain id and the sender's account but not the account's code, the hook
\* fails with the code's not-found error and calls nothing.
C16_HooksFailClosed ==
    IsHook =>
        /\ IsOk(result) =>
               /\ \A i \in 1 .. Len(steps) : IsOk(steps[i].res)
               /\ \A i \in 1 .. Len(calls) : Responded(calls[i])
        /\ \A i \in 1 .. Len(steps) :
               ~IsOk(steps[i].res) =>
                   /\ i = Len(steps)
                   /\ IsErr(result)
                   /\ result = steps[i].res
        /\ \A i \in 1 .. Len(calls) :
               /\ IsErr(calls[i].ret) =>
                      result = Err(AppErrorFromVm(calls[i].ret.err))
               /\ (IsOk(calls[i].ret) /\ calls[i].ret.val.tag = "GenericErr") =>
                      result = Err(AppErrorFromStd(GuestError))
        /\ IsErr(result) =>
               /\ Len(logs) = 1
               /\ logs[1].level = "warn"
               /\ logs[1].fields = [err |-> result.err]
        /\ (CHAIN_ID_KEY \in DOMAIN store
                /\ AccountKey(last.tx.sender) \in DOMAIN store) =>
               FailsOnMissing(
                   CodeKey(store[AccountKey(last.tx.sender)].code_hash),
                   Hook(last.op,
                        MapRemove(store,
                            CodeKey(store[AccountKey(last.tx.sender)].code_hash)),
                        last.block, last.tx, NoBeh))

\* An after_tx hook whose response asked for a submessage that failed has
\* returned the submessage's error.
C16_Witness ==
    /\ last.op = "after_tx"
    /\ Len(calls) = 1
    /\ Responded(calls[1])
    /\ steps[Len(steps)].step = "handle_submessages"
    /\ IsErr(result)

HostSteps == {"CONFIG.load", "ACCOUNTS.load", "CODES.load", "build_from_code"}

\* C17: the only entry point a Transfer message invokes is transfer, on the
\* code of the account of the bank named in the config, over the view
\* prefixed with the bank's namespace, with the bank as the context's
\* contract, no sender, and the record {from: sender, to, coins} of the
\* message; it is invoked once whenever the bank's code was loaded and built,
\* and on success the logged record is the one passed to the bank.
C17_TransferInvokesBank ==
    IsMsg("Transfer") =>
        /\ \A i \in 1 .. Len(calls) :
               /\ calls[i].entry = "transfer"
               /\ Load(calls[i].before, CONFIG_KEY) = Ok([bank |-> calls[i].ctx.contract])
               /\ Load(calls[i].before,
                       CodeKey(calls[i].before[AccountKey(calls[i].ctx.contract)].code_hash))
                      = Ok(calls[i].code)
               /\ calls[i].prefix = CONTRACT_NAMESPACE \o <<calls[i].ctx.contract>>
               /\ calls[i].ctx.sender = None
               /\ calls[i].msg = [coins |-> last.msg.coins,
                                  from  |-> last.sender,
                                  to    |-> last.msg.to]
        /\ Len(calls) =< 1
        /\ (\A i \in 1 .. Len(steps) :
                steps[i].step \in HostSteps => IsOk(steps[i].res)) =>
               Len(calls) = 1
        /\ IsOk(result) =>
               /\ Len(calls) = 1
               /\ Len(logs) = 1
               /\ logs[1].level = "info"
               /\ logs[1].fields = calls[1].msg

\* A Transfer of coins to another address went through the bank.
C17_Witness ==
    /\ IsMsg("Transfer")
    /\ IsOk(result)
    /\ ~is_empty(last.msg.coins)
    /\ last.msg.to # last.sender
    /\ Changed(calls[1].before, calls[1].after) # {}

\* The addresses an Instantiate that left r behind was aimed at: where an
\* account record appeared, the contract of the constructor's context, and
\* the recipient of the funds.
Targets(before, r) ==
    {k[2] : k \in AccountKeys(r.store) \ AccountKeys(before)}
    \cup {r.calls[i].ctx.contract :
              i \in {j \in 1 .. Len(r.calls) : r.calls[j].entry = "instantiate"}}
    \cup {r.calls[i].msg.to :
              i \in {j \in 1 .. Len(r.calls) : r.calls[j].entry = "transfer"}}

OtherBlock(block) == CHOOSE b \in Blocks : b # block
OtherAdmin(admin) == IF admin.some THEN None ELSE Some(2)

\* C18: an Instantiate message is aimed at one address only, the one derived
\* from its sender, code_hash and salt: the account record it writes, the
\* context of the constructor and the recipient of the funds all name it,
\* whatever the store held, and the same message with another msg, admin and
\* block is aimed at the same address.
C18_AddressFromTriple ==
    [][(last'.op = "process_msg" /\ last'.msg.type = "Instantiate") =>
          /\ Targets(store, [calls |-> calls', store |-> store'])
                 \subseteq {AddrCompute(last'.sender, last'.msg.code_hash,
                                        last'.msg.salt)}
          /\ (\E i \in 1 .. Len(steps') :
                  steps'[i].step = "ACCOUNTS.update" /\ IsOk(steps'[i].res)) =>
                 /\ Targets(store, [calls |-> calls', store |-> store']) # {}
                 /\ Targets(store,
                            _instantiate(store, OtherBlock(last'.block),
                                         last'.sender, last'.msg.code_hash, 2,
                                         last'.msg.salt, last'.msg.funds,
                                         OtherAdmin(last'.msg.admin),
                                         [bank   |-> Beh(TRUE, TRUE, "Ok", <<>>, <<>>),
                                          target |-> Beh(TRUE, FALSE, "Ok", <<>>, <<>>)]))
                        = Targets(store, [calls |-> calls', store |-> store'])
    ]_vars

\* The same sender has instantiated two codes, the second one with funds and
\* an admin, in a store that already held the first account.
C18_Witness ==
    /\ IsMsg("Instantiate")
    /\ IsOk(result)
    /\ ~is_empty(last.msg.funds)
    /\ last.msg.admin # None
    /\ Cardinality({k \in AccountKeys(store) :
                        k[2] \in {AddrCompute(last.sender, h, 0) : h \in Hashes}}) >= 2
    /\ ops = 2

\* C19: in an Execute{contract: C, funds} message from sender S the
\* transfer, when there is one, is called first with the record {from: S,
\* to: C, coins: funds}; the execute entry point runs the code of C's account
\* over the view prefixed with C's namespace, with contract = C and sender = S
\* in its context; and an account that cannot be loaded is C's.
C19_ExecuteRoles ==
    IsMsg("Execute") =>
        /\ \A i \in 1 .. Len(calls) :
               /\ calls[i].entry \in {"transfer", "execute"}
               /\ calls[i].entry = "transfer" =>
                      /\ i = 1
                      /\ calls[i].msg = [coins |-> last.msg.funds,
                                         from  |-> last.sender,
                                         to    |-> last.msg.contract]
               /\ calls[i].entry = "execute" =>
                      /\ i = Len(calls)
                      /\ IsOk(Load(calls[i].before, AccountKey(last.msg.contract)))
                      /\ Load(calls[i].before,
                              CodeKey(calls[i].before[AccountKey(last.msg.contract)].code_hash))
                             = Ok(calls[i].code)
                      /\ calls[i].prefix = CONTRACT_NAMESPACE \o <<last.msg.contract>>
                      /\ calls[i].ctx.contract = last.msg.contract
                      /\ calls[i].ctx.sender = Some(last.sender)
        /\ (is_empty(last.msg.funds) /\ IsErr(result)
                /\ result.err.kind = "DataNotFound") =>
               result.err = DataNotFound(AccountKey(last.msg.contract))

\* An Execute with funds, sent to a contract other than the sender and the
\* bank, went through the transfer and the contract's entry point.
C19_Witness ==
    /\ IsMsg("Execute")
    /\ IsOk(result)
    /\ Len(calls) = 2
    /\ last.msg.contract \notin {last.sender, BankAddr}
    /\ calls[2].entry = "execute"

\* What the claim below says of the call that has just been made.
FailedTransferStops ==
    (last.op = "process_msg" /\ last.msg.type \in {"Instantiate", "Execute"}) =>
        /\ \A i \in 1 .. Len(steps) :
               (steps[i].step = "_transfer" /\ ~IsOk(steps[i].res)) =>
                   /\ i = Len(steps)
                   /\ result = steps[i].res
                   /\ \A j \in 1 .. Len(calls) : calls[j].entry = "transfer"
        /\ \A i \in 1 .. Len(calls) :
               (calls[i].entry = "transfer" /\ ~Responded(calls[i])) =>
                   /\ Len(calls) = 1
                   /\ IsErr(result)
                   /\ IsErr(calls[i].ret) => result = calls[i].ret
                   /\ IsOk(calls[i].ret) => result = Err(GuestError)
        /\ is_empty(last.msg.funds) =>
               /\ \A i \in 1 .. Len(calls) : calls[i].entry # "transfer"
               /\ \A i \in 1 .. Len(steps) :
                      steps[i].step \notin {"_transfer", "call_transfer", "CONFIG.load"}

\* r is what a message left behind whose bank rejected the transfer.
OnlyTheBankRan(r) ==
    /\ r.res = Err(GuestError)
    /\ \A i \in 1 .. Len(r.calls) : r.calls[i].entry = "transfer"

\* C20: in an Instantiate or Execute message with funds, when the transfer
\* did not succeed (the bank could not be loaded or built, its call failed or
\* it rejected the transfer) no instantiate or execute entry point is called
\* and the message returns the transfer's error, also when the target's code
\* is one that builds and answers; in a message without funds no transfer
\* entry point is called and no step of the transfer is taken.
C20_FailedTransferStopsMessage ==
    [][/\ FailedTransferStops'
       /\ (/\ last'.op = "process_msg"
           /\ last'.msg.type \in {"Instantiate", "Execute"}
           /\ Len(calls') = 1
           /\ calls'[1].entry = "transfer"
           /\ ~Responded(calls'[1])) =>
              OnlyTheBankRan(
                  process_msg(store, last'.block, last'.sender, last'.msg,
                              [bank   |-> Beh(TRUE, TRUE, "GuestErr", <<>>, <<>>),
                               target |-> Beh(TRUE, TRUE, "Ok", <<>>, <<>>)]))
    ]_vars

\* An Instantiate with funds wrote the account record, the bank rejected the
\* transfer, and the message has returned the bank's error without calling
\* the constructor.
C20_Witness ==
    /\ IsMsg("Instantiate")
    /\ ~is_empty(last.msg.funds)
    /\ Len(calls) = 1
    /\ IsOk(calls[1].ret)
    /\ calls[1].ret.val.tag = "GenericErr"
    /\ IsErr(result)
    /\ AccountKey(InstantiateAddress(last.sender, last.msg)) \in DOMAIN store

\* C21: an Instantiate whose code_hash is not in the code registry fails with
\* the not-found error of that code, after the load of the code as its only
\* step: the store is as it was, with no account at the derived address, and
\* no entry point, the bank's included, is called.
C21_InstantiateUnknownCode ==
    [][(/\ last'.op = "process_msg"
        /\ last'.msg.type = "Instantiate"
        /\ CodeKey(last'.msg.code_hash) \notin DOMAIN store) =>
          /\ result' = Err(DataNotFound(CodeKey(last'.msg.code_hash)))
          /\ store' = store
          /\ AccountKey(InstantiateAddress(last'.sender, last'.msg))
                 \notin DOMAIN store'
          /\ calls' = <<>>
          /\ Len(steps') = 1
          /\ steps'[1].step = "CODES.load"
    ]_vars

\* An Instantiate with funds and an admin, of a code that nobody stored, has
\* failed on a store that holds the bank.
C21_Witness ==
    /\ IsMsg("Instantiate")
    /\ CodeKey(last.msg.code_hash) \notin DOMAIN store
    /\ AccountKey(BankAddr) \in DOMAIN store
    /\ ~is_empty(last.msg.funds)
    /\ last.msg.admin # None
    /\ IsErr(result)

AccountSaved ==
    \E i \in 1 .. Len(steps) :
        steps[i].step = "ACCOUNTS.update" /\ IsOk(steps[i].res)

\* C22: when an Instantiate returns an error after it saved the account
\* record (the transfer, the build, the constructor or the guest failed), the
\* record it saved is in the store it leaves behind, and an Instantiate with
\* the same sender, code_hash and salt on that store, whatever its block,
\* admin and funds, fails with already-exists for that address.
C22_NoRollbackInInstantiate ==
    [][(/\ last'.op = "process_msg"
        /\ last'.msg.type = "Instantiate"
        /\ AccountSaved'
        /\ IsErr(result')) =>
          /\ AccountKey(InstantiateAddress(last'.sender, last'.msg))
                 \notin DOMAIN store
          /\ Load(store', AccountKey(InstantiateAddress(last'.sender, last'.msg)))
                 = Ok(Account(last'.msg.code_hash, last'.msg.admin))
          /\ \A funds \in Funds :
                 instantiate(store', OtherBlock(last'.block), last'.sender,
                             last'.msg.code_hash, last'.msg.msg, last'.msg.salt,
                             funds, OtherAdmin(last'.msg.admin),
                             [bank   |-> Beh(TRUE, TRUE, "Ok", <<>>, <<>>),
                              target |-> Beh(TRUE, TRUE, "Ok", <<>>, <<>>)]).res
                     = Err(AlreadyExists(AccountKey(
                               InstantiateAddress(last'.sender, last'.msg))))
    ]_vars

\* An Instantiate with funds whose transfer went through and whose
\* constructor ran out of gas has returned the error, and the account is in
\* the store.
C22_Witness ==
    /\ IsMsg("Instantiate")
    /\ ~is_empty(last.msg.funds)
    /\ Len(calls) = 2
    /\ result = Err(VmError("GasDepletion"))
    /\ AccountKey(InstantiateAddress(last.sender, last.msg)) \in DOMAIN store

\* The transfer of the call just made did not succeed, and its error (or
\* panic) is what the call returned.
TransferFailed ==
    /\ steps # <<>>
    /\ steps[Len(steps)].step = "_transfer"
    /\ ~IsOk(steps[Len(steps)].res)
    /\ result = steps[Len(steps)].res

\* The bank was called once, for the funds of the message, answered, and the
\* account lookup that followed has failed.
TransferredThenNotFound ==
    /\ Len(calls) = 1
    /\ calls[1].entry = "transfer"
    /\ Responded(calls[1])
    /\ calls[1].msg = [coins |-> last.msg.funds,
                       from  |-> last.sender,
                       to    |-> last.msg.contract]
    /\ Len(steps) >= 2
    /\ steps[Len(steps) - 1] = Step("_transfer", Ok(Unit))
    /\ steps[Len(steps)].step = "ACCOUNTS.load"
    /\ result = Err(DataNotFound(AccountKey(last.msg.contract)))
    /\ store = calls[1].after

\* C23: an Execute with funds aimed at an address without an account record
\* either fails in the transfer with the transfer's error, or has the bank
\* transfer the funds from the sender to that address first, over the store
\* as the message found it, and then fails with the not-found error of the
\* account; the store it returns with is the store as the bank left it.
C23_TransferBeforeAccountLookup ==
    [][(/\ last'.op = "process_msg"
        /\ last'.msg.type = "Execute"
        /\ ~is_empty(last'.msg.funds)
        /\ AccountKey(last'.msg.contract) \notin DOMAIN store) =>
          \/ TransferFailed'
          \/ TransferredThenNotFound' /\ calls'[1].before = store
    ]_vars

\* An Execute with funds to an address without an account has failed with
\* not-found, and what the bank wrote is in the store.
C23_Witness ==
    /\ IsMsg("Execute")
    /\ ~is_empty(last.msg.funds)
    /\ result = Err(DataNotFound(AccountKey(last.msg.contract)))
    /\ Len(calls) = 1
    /\ Changed(calls[1].before, store) # {}
    /\ \A k \in Changed(calls[1].before, store) :
           IsPrefixOf(PrefixStoreNew(BankAddr), k)

-----------------------------------------------------------------------------
(* Properties of Coins built from and written to external input, checked
   under SpecCodec *)

HasZero(w) == \E i \in DOMAIN w : w[i].kind = "coin" /\ w[i].amount = 0

HasRepeat(w) ==
    \E i, j \in DOMAIN w :
        /\ i # j
        /\ w[i].kind = "coin"
        /\ w[j].kind = "coin"
        /\ w[i].denom = w[j].denom

AllCoins(w) == \A i \in DOMAIN w : w[i].kind = "coin"

Construct(op, w) ==
    CASE op = "from_str" -> from_str(w)
      [] op = "try_from" -> try_from(w)
      [] OTHER -> visit_seq(w)

\* C14: FromStr, TryFrom<Vec<Coin>> and deserialization each reject an input
\* holding a zero amount or a repeated denom, and accept a non-empty input of
\* coins with positive amounts and distinct denoms in whatever order; the
\* Coins returned holds exactly the input's pairs, one per denom, all
\* positive, and is the Coins the same constructor builds from these pairs in
\* ascending denom order.
C14_ConstructorsValidate ==
    coinsOp.op \in {"from_str", "try_from", "deserialize"} =>
        /\ (HasZero(coinsOp.input) \/ HasRepeat(coinsOp.input)) =>
               IsErr(coinsRes)
        /\ (/\ coinsOp.input # <<>>
            /\ AllCoins(coinsOp.input)
            /\ ~HasZero(coinsOp.input)
            /\ ~HasRepeat(coinsOp.input)) => IsOk(coinsRes)
        /\ IsOk(coinsRes) =>
               /\ coins = coinsRes.val
               /\ \A d \in DOMAIN coins : coins[d] > 0
               /\ Len(coinsOp.input) = Cardinality(DOMAIN coins)
               /\ \A i \in DOMAIN coinsOp.input :
                      /\ coinsOp.input[i].denom \in DOMAIN coins
                      /\ coins[coinsOp.input[i].denom] = coinsOp.input[i].amount
               /\ Construct(coinsOp.op, iter(coins)) = coinsRes

\* A JSON array whose denoms are out of order was deserialized into a Coins.
C14_Witness ==
    /\ coinsOp.op = "deserialize"
    /\ IsOk(coinsRes)
    /\ Len(coinsOp.input) = 2
    /\ coinsOp.input[1].denom = "umars"
    /\ coinsOp.input[2].denom = "uatom"

Range(s) == {s[i] : i \in DOMAIN s}

Rank(denom) == CHOOSE n \in 1 .. Len(DenomOrder) : DenomOrder[n] = denom

\* C15: Coins is serialized as a sequence of its entries in strictly
\* ascending denom order, so without a repeated denom, and deserializing the
\* sequence written for a Coins without a zero amount, the empty one
\* included, gives that Coins back.
C15_SerializeRoundTrip ==
    coinsOp.op = "serialize" =>
        /\ IsOk(coinsRes)
        /\ AllCoins(coinsRes.val)
        /\ \A i, j \in DOMAIN coinsRes.val :
               i < j => Rank(coinsRes.val[i].denom) < Rank(coinsRes.val[j].denom)
        /\ {<<e.denom, e.amount>> : e \in Range(coinsRes.val)}
               = {<<d, coins[d]>> : d \in DOMAIN coins}
        /\ (\A d \in DOMAIN coins : coins[d] > 0) =>
               visit_seq(coinsRes.val) = Ok(coins)

\* A Coins of three denoms, none of them zero, was serialized.
C15_Witness ==
    /\ coinsOp.op = "serialize"
    /\ DOMAIN coins = Denoms
    /\ \A d \in DOMAIN coins : coins[d] > 0

\* C24: the string written for a Coins without a zero amount, the empty one
\* included, is parsed by from_str into that Coins.
C24_DisplayFromStrRoundTrip ==
    (coinsOp.op = "to_string" /\ \A d \in DOMAIN coins : coins[d] > 0) =>
        from_str(coinsRes.val) = Ok(coins)

-----------------------------------------------------------------------------
(* Overflow of increase_amount, checked under SpecCoins *)

\* C25: an increase_amount of a denom that is held, by an amount that takes
\* it over the maximum, returns the addition's overflow error and leaves the
\* map as it was (the amount neither wrapped nor at the maximum); within the
\* maximum it stores the sum; of a denom that is not held it returns Ok and
\* stores exactly `by`, leaving the other denoms alone.
C25_IncreaseOverflow ==
    [][coinsOp'.op = "increase_amount" =>
          LET d  == coinsOp'.denom
              by == coinsOp'.by
          IN /\ (d \in DOMAIN coins /\ coins[d] + by > UintMax) =>
                    /\ coinsRes' = Err("OverflowAdd")
                    /\ coins' = coins
                    /\ coins'[d] # (coins[d] + by) % (UintMax + 1)
                       \/ coins[d] = (coins[d] + by) % (UintMax + 1)
                    /\ coins'[d] # UintMax \/ coins[d] = UintMax
             /\ (d \in DOMAIN coins /\ coins[d] + by =< UintMax) =>
                    /\ coinsRes' = Ok(Unit)
                    /\ coins' = [coins EXCEPT ![d] = coins[d] + by]
             /\ d \notin DOMAIN coins =>
                    /\ coinsRes' = Ok(Unit)
                    /\ DOMAIN coins' = DOMAIN coins \cup {d}
                    /\ coins'[d] = by
                    /\ \A x \in DOMAIN coins : coins'[x] = coins[x]
    ]_vars

\* An increase of one of two held denoms has overflowed.
C25_Witness ==
    /\ coinsOp.op = "increase_amount"
    /\ coinsRes = Err("OverflowAdd")
    /\ Cardinality(DOMAIN coins) >= 2
    /\ coins[coinsOp.denom] + coinsOp.by > UintMax
    /\ coins[coinsOp.denom] < UintMax

====
